---- MODULE Spec2Model ----
(***************************************************************************)
(* State machine of discord_pokemon_stock_bot.py: the shared BotConfig     *)
(* `cfg`, the TrackedItem objects it refers to, the state file on disk,    *)
(* the monitor task (monitor_loop) and the command handlers that share     *)
(* `cfg` with it on one asyncio event loop.  A step of the model is the    *)
(* code that runs between two suspension points (await) of one coroutine.  *)
(*                                                                         *)
(* Strings the program compares (urls, nicknames, command arguments) are   *)
(* sequences of character codes; None is modelled per field by the values  *)
(* named No... and None below.                                             *)
(***************************************************************************)
EXTENDS Integers, Sequences, FiniteSets, TLC

\* ------------------------------------------------------------------ bounds
\* Readings of time.time() the monitor loop may take (one per check).
MaxClock == 2
\* Failures of the environment (save_state raising, channel.send raising).
MaxFaults == 1
\* Structured-data blocks of a page.
MaxBlocks == 2
\* Phrases and other words of a page's text.
MaxWords == 3

\* ------------------------------------------------------- program constants
DEFAULT_INTERVAL_SEC == 300
MIN_INTERVAL_SEC == 60

\* Optional[...] = None of the dataclass fields.
None == "None"
NoTitle == "None"
NoNick == << >>
NoChannel == 0
NoTime == 0

Statuses == {"InStock", "OutOfStock", "PreOrder", "Unknown"}

\* Character codes: the two substrings track_add looks for are one symbol
\* each, letters and digits are their ASCII codes.
BolCom == 1
MediaMarkt == 2
Url1 == <<BolCom, 49>>
Url2 == <<MediaMarkt, 50>>
BadUrl == <<120, 51>>
Urls == {Url1, Url2}
\* The nickname "A", and "a" as a command argument.
Nicks == {<<65>>}
Channels == {7}
\* Arguments of !interval; a state file may hold any integer.
Minutes == {-1, 0, 1, 5}
FileIntervals == {30}

\* Identity of TrackedItem objects: at most one per dict entry and one per
\* entry of the sweep's list.
ObjIds == 1 .. (2 * Cardinality(Urls))

Max(a, b) == IF a >= b THEN a ELSE b

\* ------------------------------------------------------------- dataclasses
\* TrackedItem(url=url, nickname=nickname)
TrackedItem(url, nickname) ==
    [url |-> url, nickname |-> nickname, last_status |-> None,
     last_title |-> NoTitle, last_checked |-> NoTime]

\* A slot of the heap that holds no object.
NoObj == [url |-> << >>, nickname |-> NoNick, last_status |-> None,
          last_title |-> NoTitle, last_checked |-> NoTime]

EmptyHeap == [o \in ObjIds |-> NoObj]

\* BotConfig(...): items is the dict in insertion order, a sequence of
\* [url, obj].
BotConfig(interval_sec, alert_channel_id, items) ==
    [interval_sec |-> interval_sec, alert_channel_id |-> alert_channel_id,
     items |-> items]

Keys(items) == {items[i].url : i \in 1 .. Len(items)}

\* The position of a key of the dict.
Lookup(items, key) == (CHOOSE i \in 1 .. Len(items) : items[i].url = key)

\* d[key] = obj: an existing key keeps its position, a new key goes last.
DictSet(items, key, obj) ==
    IF key \in Keys(items)
    THEN [items EXCEPT ![Lookup(items, key)] = [url |-> key, obj |-> obj]]
    ELSE Append(items, [url |-> key, obj |-> obj])

\* d.pop(key, None)
DictPop(items, key) ==
    IF key \in Keys(items)
    THEN LET k == Lookup(items, key)
         IN  [i \in 1 .. (Len(items) - 1) |->
                 IF i < k THEN items[i] ELSE items[i + 1]]
    ELSE items

\* Objects some reference still leads to; the others are dropped.
Reach(items, snap) ==
    {items[i].obj : i \in 1 .. Len(items)} \cup {snap[i].obj : i \in 1 .. Len(snap)}

Collect(h, items, snap) ==
    [o \in ObjIds |-> IF o \in Reach(items, snap) THEN h[o] ELSE NoObj]

Alloc(items, snap) ==
    CHOOSE o \in ObjIds \ Reach(items, snap) :
        \A p \in ObjIds \ Reach(items, snap) : o <= p

\* str.lower() on the character codes.
Lower(s) == [i \in 1 .. Len(s) |-> IF s[i] \in 65 .. 90 THEN s[i] + 32 ELSE s[i]]

\* "bol.com" in url or "mediamarkt" in url
AllowedHost(url) ==
    \E i \in 1 .. Len(url) : url[i] = BolCom \/ url[i] = MediaMarkt

\* ------------------------------------------------------------- persistence
FileMissing == [kind |-> "missing"]
\* A file json.load rejects: empty, cut short, not JSON.
FileCorrupt == [kind |-> "corrupt"]

to_dict(c, h) ==
    [kind |-> "doc",
     interval_sec |-> c.interval_sec,
     alert_channel_id |-> c.alert_channel_id,
     items |-> [i \in 1 .. Len(c.items) |->
                  [key |-> c.items[i].url, item |-> h[c.items[i].obj]]]]

\* A file open() cannot read (permissions, a directory).
FileUnreadable == [kind |-> "unreadable"]
\* A JSON document that is no object: a list, a string, a number, null.
FileNotObject == [kind |-> "json_value"]

\* The keyword arguments TrackedItem(**it) accepts; url has no default.
ItemFields == {"url", "nickname", "last_status", "last_title", "last_checked"}

\* int(s) of a string accepts decimal digits; anything else is a ValueError.
Numeric(s) == s # << >> /\ \A i \in 1 .. Len(s) : s[i] \in 48 .. 57

RECURSIVE ParseInt(_)
ParseInt(s) ==
    IF s = << >> THEN 0
    ELSE 10 * ParseInt(SubSeq(s, 1, Len(s) - 1)) + (s[Len(s)] - 48)

\* int(d.get("interval_sec", DEFAULT_INTERVAL_SEC)): the document holds a
\* number (interval_sec), a string (interval_text) or no such key.
IntervalOf(d) ==
    IF "interval_sec" \in DOMAIN d THEN d.interval_sec
    ELSE IF "interval_text" \in DOMAIN d THEN ParseInt(d.interval_text)
    ELSE DEFAULT_INTERVAL_SEC

\* from_dict raising with the check of the items' fields left out.
FromDictRaisesOnShapeOnly(d) ==
    \/ d.kind # "doc"
    \/ ("interval_text" \in DOMAIN d /\ ~Numeric(d.interval_text))

\* from_dict raises: d.get on a value that is no dict (AttributeError),
\* TrackedItem(**it) with a keyword it does not know or without url
\* (TypeError), int() of a string that is no number (ValueError).
from_dict_raises(d) ==
    \/ d.kind # "doc"
    \/ \E i \in 1 .. Len(d.items) :
          ~(DOMAIN d.items[i].item \subseteq ItemFields /\ "url" \in DOMAIN d.items[i].item)
    \/ ("interval_text" \in DOMAIN d /\ ~Numeric(d.interval_text))

\* from_dict: one new TrackedItem per entry, int() of the stored interval.
from_dict(d) ==
    [cfg |-> BotConfig(IntervalOf(d), d.alert_channel_id,
                       [i \in 1 .. Len(d.items) |-> [url |-> d.items[i].key, obj |-> i]]),
     heap |-> [o \in ObjIds |->
                 IF o <= Len(d.items) THEN d.items[o].item ELSE NoObj]]

\* load_state: no file, or open, json.load or from_dict raising, give
\* BotConfig(items={}).
load_state(f) ==
    IF f.kind = "missing" \/ f.kind \in {"unreadable", "corrupt"} \/ from_dict_raises(f)
    THEN [cfg |-> BotConfig(DEFAULT_INTERVAL_SEC, NoChannel, << >>), heap |-> EmptyHeap]
    ELSE from_dict(f)

\* cfg = load_state(), then ALERT_CHANNEL_ID of the environment when no
\* channel is stored.
Startup(f, envChannel) ==
    LET l == load_state(f)
    IN  [cfg |-> IF envChannel # NoChannel /\ l.cfg.alert_channel_id = NoChannel
                 THEN [l.cfg EXCEPT !.alert_channel_id = envChannel]
                 ELSE l.cfg,
         heap |-> l.heap]

\* save_state(c): open(STATE_FILE, "w") truncates, json.dump writes.  Either
\* can raise (OSError); the file is then untouched or cut short.
SaveResults(c, h, f, nfaults) ==
    {[res |-> "ok", file |-> to_dict(c, h)]}
    \cup (IF nfaults < MaxFaults
          THEN {[res |-> "open_raised", file |-> f],
                [res |-> "dump_raised", file |-> FileCorrupt]}
          ELSE {})

Faults(res) == IF res = "ok" THEN 0 ELSE 1

\* The state file a run may find: none, an unreadable one, one an operator
\* wrote by hand.
InitFiles ==
    {FileMissing, FileCorrupt}
    \cup {[kind |-> "doc", interval_sec |-> n, alert_channel_id |-> NoChannel,
           items |-> << >>] : n \in FileIntervals}

\* cfg, heap: the BotConfig `cfg` and the TrackedItem objects.  file: the
\* content of STATE_FILE.  monitor: where _monitor_task stands.  snapshot:
\* the entries of list(cfg.items.items()) the for statement has not finished
\* with.  closed: bot.is_closed().  clock: time.time().  faults: failures so
\* far.  presentAtTurn: whether the url being fetched was a key of cfg.items
\* when its fetch began.  event: what the last step did.
VARIABLES cfg, heap, file, monitor, snapshot, closed, clock, faults, presentAtTurn, event

vars == <<cfg, heap, file, monitor, snapshot, closed, clock, faults, presentAtTurn, event>>

InitWith(files, nfaults) ==
    /\ file \in files
    /\ \E e \in {NoChannel} \cup Channels :
          /\ cfg = Startup(file, e).cfg
          /\ heap = Startup(file, e).heap
    /\ monitor = "none"
    /\ snapshot = << >>
    /\ closed = FALSE
    /\ clock = 0
    /\ faults = nfaults
    /\ presentAtTurn = TRUE
    /\ event = [op |-> "start"]

Init == InitWith(InitFiles, 0)

\* --------------------------------------------------------------- commands
\* !channel #channel
set_channel(channel) ==
    /\ ~closed
    /\ LET c1 == [cfg EXCEPT !.alert_channel_id = channel]
       IN  \E s \in SaveResults(c1, heap, file, faults) :
              /\ cfg' = c1
              /\ file' = s.file
              /\ faults' = faults + Faults(s.res)
              /\ event' = [op |-> "channel", save |-> s.res]
    /\ UNCHANGED <<heap, monitor, snapshot, closed, clock, presentAtTurn>>

\* The clamp with its floor at 0 instead of 1.
ClampMinutesAtZero(minutes) == Max(0, minutes)

\* minutes = max(1, minutes)
ClampMinutes(minutes) == Max(1, minutes)

\* !interval <minutes>
set_interval(minutes) ==
    /\ ~closed
    /\ LET c1 == [cfg EXCEPT !.interval_sec = ClampMinutes(minutes) * 60]
       IN  \E s \in SaveResults(c1, heap, file, faults) :
              /\ cfg' = c1
              /\ file' = s.file
              /\ faults' = faults + Faults(s.res)
              /\ event' = [op |-> "interval", minutes |-> minutes, save |-> s.res]
    /\ UNCHANGED <<heap, monitor, snapshot, closed, clock, presentAtTurn>>

\* track_add without its test for a tracked url.
IsTrackedNever(c, url) == FALSE

\* url in cfg.items
IsTracked(c, url) == url \in Keys(c.items)

\* !track add <url> [nickname]
track_add(url, nickname) ==
    /\ ~closed
    /\ IF ~AllowedHost(url)
       THEN /\ event' = [op |-> "track_add", url |-> url, nickname |-> nickname,
                         reply |-> "bad_host", save |-> "none"]
            /\ UNCHANGED <<cfg, heap, file, faults>>
       ELSE IF IsTracked(cfg, url)
       THEN /\ event' = [op |-> "track_add", url |-> url, nickname |-> nickname,
                         reply |-> "already_tracked", save |-> "none"]
            /\ UNCHANGED <<cfg, heap, file, faults>>
       ELSE LET o  == Alloc(cfg.items, snapshot)
                h1 == [heap EXCEPT ![o] = TrackedItem(url, nickname)]
                c1 == [cfg EXCEPT !.items = DictSet(cfg.items, url, o)]
            IN  \E s \in SaveResults(c1, h1, file, faults) :
                   /\ cfg' = c1
                   /\ heap' = Collect(h1, c1.items, snapshot)
                   /\ file' = s.file
                   /\ faults' = faults + Faults(s.res)
                   /\ event' = [op |-> "track_add", url |-> url, nickname |-> nickname,
                                reply |-> IF s.res = "ok" THEN "added" ELSE "raised",
                                save |-> s.res]
    /\ UNCHANGED <<monitor, snapshot, closed, clock, presentAtTurn>>

\* The nickname loop comparing the strings as they are.
ByNicknameExact(items, h, identifier) ==
    LET hits == {i \in 1 .. Len(items) :
                    /\ h[items[i].obj].nickname # NoNick
                    /\ h[items[i].obj].nickname = identifier}
    IN  IF hits = {}
        THEN << >>
        ELSE items[CHOOSE i \in hits : \A j \in hits : i <= j].url

\* The url the nickname loop of track_remove stops at, << >> when none.
ByNickname(items, h, identifier) ==
    LET hits == {i \in 1 .. Len(items) :
                    /\ h[items[i].obj].nickname # NoNick
                    /\ Lower(h[items[i].obj].nickname) = Lower(identifier)}
    IN  IF hits = {}
        THEN << >>
        ELSE items[CHOOSE i \in hits : \A j \in hits : i <= j].url

\* !track remove <url-or-nickname>
track_remove(identifier) ==
    /\ ~closed
    /\ LET to_del == IF identifier \in Keys(cfg.items)
                     THEN identifier
                     ELSE ByNickname(cfg.items, heap, identifier)
       IN  IF to_del = << >>
           THEN /\ event' = [op |-> "track_remove", identifier |-> identifier,
                             reply |-> "not_found", save |-> "none"]
                /\ UNCHANGED <<cfg, heap, file, faults>>
           ELSE LET c1 == [cfg EXCEPT !.items = DictPop(cfg.items, to_del)]
                IN  \E s \in SaveResults(c1, heap, file, faults) :
                       /\ cfg' = c1
                       /\ heap' = Collect(heap, c1.items, snapshot)
                       /\ file' = s.file
                       /\ faults' = faults + Faults(s.res)
                       /\ event' = [op |-> "track_remove", identifier |-> identifier,
                                    reply |-> IF s.res = "ok" THEN "removed" ELSE "raised",
                                    save |-> s.res]
    /\ UNCHANGED <<monitor, snapshot, closed, clock, presentAtTurn>>

\* ---------------------------------------------------------- stock checking
\* Availability tokens as character codes: a prefix (115, "https://schema.org/")
\* and one symbol for the word that follows, in upper case as sites write it:
\* 73 InStock, 79 OutOfStock, 80 PreOrder, 68 Discontinued.
Tokens == {<<115, 73>>, <<115, 79>>, <<115, 80>>, <<115, 68>>}

Has(s, c) == \E i \in 1 .. Len(s) : s[i] = c

\* raw.lower() tested for "instock", "outofstock", "preorder"/"pre-order", in
\* that order; None when it holds none of them.
Normalize(raw) ==
    LET l == Lower(raw)
    IN  IF Has(l, 105) THEN "InStock"
        ELSE IF Has(l, 111) THEN "OutOfStock"
        ELSE IF Has(l, 112) THEN "PreOrder"
        ELSE None

\* A script element of type application/ld+json.  kind: "empty" (no content),
\* "malformed" (json.loads raises), "no_avail" (JSON without an offers
\* availability string), "offer" (JSON with one).  token: what AVAIL_PATTERN
\* captures in the raw content and, for "offer", the availability string;
\* << >> when the pattern finds nothing.
Block(kind, token) ==
    [kind |-> kind, token |-> token, name |-> IF kind = "offer" THEN "N" ELSE NoTitle]

Blocks ==
    {Block("empty", << >>), Block("malformed", << >>), Block("no_avail", << >>)}
    \cup {Block("malformed", t) : t \in Tokens}
    \cup {Block("offer", t) : t \in Tokens}

RECURSIVE SeqsUpTo(_, _)
SeqsUpTo(S, n) ==
    IF n = 0 THEN {<< >>}
    ELSE LET shorter == SeqsUpTo(S, n - 1)
         IN  shorter \cup {Append(q, x) : q \in shorter, x \in S}

\* parse_jsonld_availability: for sc in scripts.
RECURSIVE parse_jsonld_availability(_)
parse_jsonld_availability(scripts) ==
    IF scripts = << >> THEN [status |-> None, name |-> NoTitle]
    ELSE LET sc == Head(scripts)
         IN  IF sc.kind = "empty"
             THEN parse_jsonld_availability(Tail(scripts))
             ELSE IF sc.token # << >> /\ Normalize(sc.token) # None
             THEN [status |-> Normalize(sc.token), name |-> sc.name]
             ELSE IF sc.kind = "malformed"
             THEN parse_jsonld_availability(Tail(scripts))
             ELSE IF sc.kind = "no_avail"
             THEN parse_jsonld_availability(Tail(scripts))
             ELSE [status |-> "Unknown", name |-> sc.name]

\* Words of a page's text as character codes, one symbol per phrase or part
\* of a phrase: 111 "op voorraad", 110 "niet ", 97 "available", 117 "un",
\* 120 "uitverkocht", 112 "pre-order", 122 any other word; 79 and 88 are
\* "Op voorraad" and "Uitverkocht" with a capital.
Words == {111, 110, 97, 117, 120, 112, 122, 79, 88}

IN_STOCK_KEYWORDS == {<<111>>, <<97>>}
OUT_STOCK_KEYWORDS == {<<110, 111>>, <<120>>, <<117, 97>>}
PREORDER_KEYWORDS == {<<112>>}

\* w in body
Contains(body, w) ==
    \E i \in 0 .. (Len(body) - Len(w)) : SubSeq(body, i + 1, i + Len(w)) = w

any_kw(body, words) == \E w \in words : Contains(body, w)

\* The fallback with the out-of-stock phrases tested first.
KeywordStatusOutFirst(text) ==
    LET body == Lower(text)
    IN  IF any_kw(body, OUT_STOCK_KEYWORDS) THEN "OutOfStock"
        ELSE IF any_kw(body, IN_STOCK_KEYWORDS) THEN "InStock"
        ELSE IF any_kw(body, PREORDER_KEYWORDS) THEN "PreOrder"
        ELSE "Unknown"

\* keyword_status_fallback on the text get_text(" ") gives.
keyword_status_fallback(text) ==
    LET body == Lower(text)
    IN  IF any_kw(body, IN_STOCK_KEYWORDS) THEN "InStock"
        ELSE IF any_kw(body, OUT_STOCK_KEYWORDS) THEN "OutOfStock"
        ELSE IF any_kw(body, PREORDER_KEYWORDS) THEN "PreOrder"
        ELSE "Unknown"

\* What the two extraction stages and the <title> element give for a page:
\* ld is the status of parse_jsonld_availability (None when no block yields
\* one), name its name, kw the status of keyword_status_fallback, title the
\* result of extract_title.
Pages ==
    {p \in [ld : Statuses \cup {None}, name : {NoTitle, "N"}, kw : Statuses,
            title : {"T"}] :
        p.ld \in {None, "Unknown"} \/ p.kw = "Unknown"}

\* fetch_html: None on a non-200 answer or an exception.
NoHtml ==
    [ld |-> None, name |-> NoTitle, kw |-> "Unknown", title |-> NoTitle, failed |-> TRUE]

FetchResults ==
    {NoHtml} \cup {[ld |-> p.ld, name |-> p.name, kw |-> p.kw,
                    title |-> p.title, failed |-> FALSE] : p \in Pages}

\* check_url(session, url) -> (status, title)
check_url(html) ==
    IF html.failed
    THEN [status |-> "Unknown", title |-> NoTitle]
    ELSE [status |-> IF html.ld = None \/ html.ld = "Unknown" THEN html.kw ELSE html.ld,
          title |-> IF html.name # NoTitle THEN html.name ELSE html.title]

\* A page as check_url reads it: its ld+json blocks in document order, the
\* text get_text(" ") gives, and its <title>.
PageHtml(page) ==
    [ld |-> parse_jsonld_availability(page.blocks).status,
     name |-> parse_jsonld_availability(page.blocks).name,
     kw |-> keyword_status_fallback(page.body),
     title |-> page.title, failed |-> FALSE]

\* check_url on a page that was fetched.  It reads and keeps no state, so
\* one call per page, from the state after the start, covers every call.
CheckPage(page) ==
    /\ event.op = "start"
    /\ event' = [op |-> "check_url", blocks |-> page.blocks, body |-> page.body,
                 status |-> check_url(PageHtml(page)).status,
                 title |-> check_url(PageHtml(page)).title]
    /\ UNCHANGED <<cfg, heap, file, monitor, snapshot, closed, clock, faults, presentAtTurn>>

\* cfg.items[url].last_status as the store holds it, "NotTracked" for a url
\* that is no key of cfg.items.
StoredStatus(c, h, url) ==
    IF url \in Keys(c.items) THEN h[c.items[Lookup(c.items, url)].obj].last_status
    ELSE "NotTracked"

\* ------------------------------------------------------------ monitor task
\* on_ready creating a task each time it fires.
NeedsTaskAlways(m) == TRUE

\* _monitor_task is None or _monitor_task.done()
NeedsTask(m) == m \in {"none", "done", "crashed"}

\* on_ready: a task is created when there is none or the last one is done
\* (returned or raised).
on_ready ==
    /\ ~closed
    /\ monitor' = IF NeedsTask(monitor) THEN "starting" ELSE monitor
    /\ event' = [op |-> "on_ready", created |-> NeedsTask(monitor)]
    /\ UNCHANGED <<cfg, heap, file, snapshot, closed, clock, faults, presentAtTurn>>

\* The for statement over the entries `snap`: the next check_url is awaited,
\* or the list is exhausted and the round's sleep is computed and awaited.
ForNext(snap) ==
    /\ snapshot' = snap
    /\ heap' = Collect(heap, cfg.items, snap)
    /\ IF snap = << >>
       THEN /\ monitor' = "round_sleep"
            /\ presentAtTurn' = TRUE
            /\ event' = [op |-> "round_sleep",
                         base |-> Max(cfg.interval_sec, MIN_INTERVAL_SEC)]
       ELSE /\ monitor' = "fetching"
            /\ presentAtTurn' = (Head(snap).url \in Keys(cfg.items))
            /\ event' = [op |-> "fetch", url |-> Head(snap).url]

\* The list holding only the items that were checked before.
SweepListOfChecked(c, h) ==
    SelectSeq(c.items, LAMBDA e : h[e.obj].last_checked # NoTime)

\* list(cfg.items.items()): the entries of the dict, in its order.
SweepList(c, h) == c.items

\* while not bot.is_closed(): after the start-up wait or the round's sleep;
\* list(cfg.items.items()) is taken and the for statement entered.
SweepStart ==
    /\ monitor \in {"starting", "round_sleep"}
    /\ IF closed
       THEN /\ monitor' = "done"
            /\ event' = [op |-> "loop_exit"]
            /\ UNCHANGED <<snapshot, heap, presentAtTurn>>
       ELSE ForNext(SweepList(cfg, heap))
    /\ UNCHANGED <<cfg, file, closed, clock, faults>>

\* The sleep between two items ends.
ItemSleepDone ==
    /\ monitor = "item_sleep"
    /\ ForNext(snapshot)
    /\ UNCHANGED <<cfg, file, closed, clock, faults>>

\* The decision with a result of Unknown never counted as a change.
ChangedUnlessUnknown(before, status) ==
    \/ (status # before /\ before # None /\ status # "Unknown")
    \/ (before = None /\ status = "InStock")

\* The decision that also fires on every check that finds the item in stock.
ChangedOrInStock(before, status) ==
    \/ (status # before /\ before # None)
    \/ status = "InStock"

\* changed, as the loop body leaves it before it stores the new status.
Changed(before, status) ==
    \/ (status # before /\ before # None)
    \/ (before = None /\ status = "InStock")

\* send_alert up to its await: whether a message goes out (a channel is set
\* and bot.get_channel finds it) and the statuses it shows.
send_alert(c, old, new, visible) ==
    [sent |-> c.alert_channel_id # NoChannel /\ visible,
     old_s |-> IF old # None THEN old ELSE "Unknown",
     new |-> new]

\* check_url returns; the body of the for statement runs to its next await.
CheckDone(html, visible) ==
    /\ monitor = "fetching"
    /\ clock < MaxClock
    /\ LET url        == Head(snapshot).url
           item       == Head(snapshot).obj
           r          == check_url(html)
           before     == heap[item].last_status
           first_time == before = None
           changed    == Changed(before, r.status)
           h1 == [heap EXCEPT ![item] =
                     [@ EXCEPT !.last_status = r.status,
                               !.last_title = IF r.title # NoTitle THEN r.title ELSE @,
                               !.last_checked = clock + 1]]
           c1 == [cfg EXCEPT !.items = DictSet(cfg.items, url, item)]
           old == IF ~first_time THEN h1[item].last_status ELSE None
           msg == send_alert(c1, old, r.status, visible)
       IN  \E s \in SaveResults(c1, h1, file, faults) :
              /\ cfg' = c1
              /\ file' = s.file
              /\ faults' = faults + Faults(s.res)
              /\ clock' = clock + 1
              /\ monitor' = IF s.res # "ok" THEN "crashed"
                            ELSE IF changed /\ msg.sent THEN "sending"
                            ELSE "item_sleep"
              /\ snapshot' = IF s.res # "ok" THEN << >> ELSE Tail(snapshot)
              /\ heap' = Collect(h1, c1.items, snapshot')
              /\ event' = [op |-> "check", url |-> url, failed |-> html.failed,
                           present_at_turn |-> presentAtTurn,
                           stored |-> StoredStatus(cfg, heap, url),
                           before |-> before, status |-> r.status,
                           save |-> s.res,
                           called |-> s.res = "ok" /\ changed,
                           old |-> old,
                           sent |-> s.res = "ok" /\ changed /\ msg.sent,
                           old_s |-> msg.old_s]
    /\ presentAtTurn' = TRUE
    /\ UNCHANGED <<closed>>

\* await channel.send(...) returns or raises (discord.HTTPException).
SendDone(ok) ==
    /\ monitor = "sending"
    /\ ok \/ faults < MaxFaults
    /\ monitor' = IF ok THEN "item_sleep" ELSE "crashed"
    /\ snapshot' = IF ok THEN snapshot ELSE << >>
    /\ heap' = Collect(heap, cfg.items, snapshot')
    /\ faults' = IF ok THEN faults ELSE faults + 1
    /\ event' = [op |-> "send", raised |-> ~ok]
    /\ UNCHANGED <<cfg, file, closed, clock, presentAtTurn>>

\* bot.close(): is_closed() is true from here on, no command is dispatched.
Close ==
    /\ ~closed
    /\ closed' = TRUE
    /\ event' = [op |-> "close"]
    /\ UNCHANGED <<cfg, heap, file, monitor, snapshot, clock, faults, presentAtTurn>>

\* The process ends (at any await, or killed) and the script is run again:
\* cfg = load_state(), no task yet.
Restart ==
    /\ \E e \in {NoChannel} \cup Channels :
          /\ cfg' = Startup(file, e).cfg
          /\ heap' = Startup(file, e).heap
    /\ monitor' = "none"
    /\ snapshot' = << >>
    /\ closed' = FALSE
    /\ presentAtTurn' = TRUE
    /\ event' = [op |-> "start"]
    /\ UNCHANGED <<file, clock, faults>>

\* What STATE_FILE holds when the process dies inside save_state(c): before
\* open(STATE_FILE, "w") the old content, after it and until the buffered
\* output of json.dump is flushed an empty or cut document, after the with
\* block the new document.
SaveCuts(c, h, f) == {f, FileCorrupt, to_dict(c, h)}

\* The process is killed inside the save_state call of !channel, and the
\* script is run again.
KilledInSave(channel) ==
    /\ ~closed
    /\ LET c1 == [cfg EXCEPT !.alert_channel_id = channel]
       IN  /\ file' \in SaveCuts(c1, heap, file)
           /\ event' = [op |-> "killed_in_save", old |-> file,
                        new |-> to_dict(c1, heap)]
    /\ \E e \in {NoChannel} \cup Channels :
          /\ cfg' = Startup(file', e).cfg
          /\ heap' = Startup(file', e).heap
    /\ monitor' = "none"
    /\ snapshot' = << >>
    /\ closed' = FALSE
    /\ presentAtTurn' = TRUE
    /\ UNCHANGED <<clock, faults>>

\* The state file is replaced from outside the program (an operator's edit,
\* a damaged disk).
FileReplaced(f) ==
    /\ file' = f
    /\ event' = [op |-> "file_replaced"]
    /\ UNCHANGED <<cfg, heap, monitor, snapshot, closed, clock, faults, presentAtTurn>>

\* ---------------------------------------------------------- specifications
\* The whole program with one url to track.
Next ==
    \/ \E ch \in Channels : set_channel(ch)
    \/ \E m \in {0, 5} : set_interval(m)
    \/ \E n \in Nicks \cup {NoNick} : track_add(Url1, n)
    \/ \E id \in {Url1} \cup {Lower(n) : n \in Nicks} : track_remove(id)
    \/ on_ready
    \/ SweepStart
    \/ ItemSleepDone
    \/ \E html \in FetchResults, visible \in BOOLEAN : CheckDone(html, visible)
    \/ \E ok \in BOOLEAN : SendDone(ok)
    \/ Close
    \/ Restart

Spec == Init /\ [][Next]_vars

\* Sweeps over two urls while the operator adds and removes them; the disk
\* and the channel do not fail.
InitPair == InitWith({FileMissing}, MaxFaults)

NextPair ==
    \/ \E u \in Urls : track_add(u, NoNick)
    \/ \E u \in Urls : track_remove(u)
    \/ on_ready
    \/ SweepStart
    \/ ItemSleepDone
    \/ \E html \in FetchResults, visible \in BOOLEAN : CheckDone(html, visible)
    \/ SendDone(TRUE)

SpecPair == InitPair /\ [][NextPair]_vars

\* The commands and the state file alone: every argument, two urls, and a
\* state file an earlier run left.
DocOfEarlierRun ==
    [kind |-> "doc", interval_sec |-> DEFAULT_INTERVAL_SEC, alert_channel_id |-> NoChannel,
     items |-> <<[key |-> Url1,
                  item |-> [url |-> Url1, nickname |-> <<65>>, last_status |-> "InStock",
                            last_title |-> "T", last_checked |-> 1]]>>]

InitControl == InitWith(InitFiles \cup {DocOfEarlierRun}, 0)

NextControl ==
    \/ \E ch \in Channels : set_channel(ch)
    \/ \E m \in Minutes : set_interval(m)
    \/ \E u \in Urls \cup {BadUrl}, n \in Nicks \cup {NoNick} : track_add(u, n)
    \/ \E id \in Urls \cup {BadUrl} \cup Nicks \cup {Lower(n) : n \in Nicks} : track_remove(id)
    \/ Restart

SpecControl == InitControl /\ [][NextControl]_vars


\* The sweep loop over one url against the operator adding and removing it
\* and setting the channel, a failing disk or channel, close and restarts;
\* the interval stays as loaded.
InitSweep == InitWith({FileMissing, DocOfEarlierRun}, 0)

NextSweep ==
    \/ \E ch \in Channels : set_channel(ch)
    \/ \E n \in Nicks \cup {NoNick} : track_add(Url1, n)
    \/ \E id \in {Url1} \cup {Lower(n) : n \in Nicks} : track_remove(id)
    \/ on_ready
    \/ SweepStart
    \/ ItemSleepDone
    \/ \E html \in FetchResults, visible \in BOOLEAN : CheckDone(html, visible)
    \/ \E ok \in BOOLEAN : SendDone(ok)
    \/ Close
    \/ Restart

SpecSweep == InitSweep /\ [][NextSweep]_vars

\* Removal: two urls, nicknames that collide with each other and with a url,
\* identifiers in either case, a failing disk and restarts.
RemoveNicks == Nicks \cup {Url2}

InitRemove == InitWith({FileMissing, DocOfEarlierRun}, 0)

NextRemove ==
    \/ \E u \in Urls, n \in RemoveNicks \cup {NoNick} : track_add(u, n)
    \/ \E id \in Urls \cup {BadUrl} \cup Nicks \cup {Lower(n) : n \in Nicks} :
          track_remove(id)
    \/ Restart

SpecRemove == InitRemove /\ [][NextRemove]_vars

\* The commands against a process that can be killed while it saves.
InitCrash == InitWith({FileMissing, DocOfEarlierRun}, 0)

NextCrash ==
    \/ \E ch \in Channels : set_channel(ch)
    \/ \E u \in Urls, n \in Nicks \cup {NoNick} : track_add(u, n)
    \/ \E u \in Urls : track_remove(u)
    \/ \E ch \in Channels : KilledInSave(ch)
    \/ Restart

SpecCrash == InitCrash /\ [][NextCrash]_vars

\* Documents from_dict cannot take, and one with a numeric string it can.
DocItemWithExtraField ==
    [kind |-> "doc", interval_sec |-> 120, alert_channel_id |-> 7,
     items |-> <<[key |-> Url1,
                  item |-> [url |-> Url1, nickname |-> NoNick, last_status |-> "InStock",
                            last_title |-> "T", last_checked |-> 1, price |-> 5]]>>]

DocIntervalText(s) ==
    [kind |-> "doc", interval_text |-> s, alert_channel_id |-> 7,
     items |-> <<[key |-> Url1,
                  item |-> [url |-> Url1, nickname |-> NoNick, last_status |-> "InStock",
                            last_title |-> "T", last_checked |-> 1]]>>]

MalformedFiles ==
    {FileUnreadable, FileCorrupt, FileNotObject, DocItemWithExtraField,
     DocIntervalText(<<97, 98>>), DocIntervalText(<< >>)}

LoadFiles ==
    {FileMissing, DocOfEarlierRun, DocIntervalText(<<57, 48>>)} \cup MalformedFiles

\* Starts and restarts over every kind of state file, with the commands in
\* between.
InitLoad == InitWith(LoadFiles, 0)

NextLoad ==
    \/ \E ch \in Channels : set_channel(ch)
    \/ \E n \in Nicks \cup {NoNick} : track_add(Url1, n)
    \/ track_remove(Url1)
    \/ \E f \in LoadFiles : FileReplaced(f)
    \/ Restart

SpecLoad == InitLoad /\ [][NextLoad]_vars

\* Sweeps over two urls while the operator adds either and removes the
\* first; no alert channel, no failure of the disk.
InitAdd == InitPair /\ cfg.alert_channel_id = NoChannel

NextAdd ==
    \/ \E u \in Urls : track_add(u, NoNick)
    \/ track_remove(Url1)
    \/ on_ready
    \/ SweepStart
    \/ ItemSleepDone
    \/ \E html \in FetchResults : CheckDone(html, TRUE)

SpecAdd == InitAdd /\ [][NextAdd]_vars

\* check_url over pages with up to MaxBlocks blocks of every kind.
BlockPages ==
    [blocks : SeqsUpTo(Blocks, MaxBlocks), body : {<< >>, <<88>>}, title : {"T"}]

InitBlocks == InitWith({FileMissing}, 0)

NextBlocks == \E page \in BlockPages : CheckPage(page)

SpecBlocks == InitBlocks /\ [][NextBlocks]_vars

\* check_url over pages with up to MaxWords words of text and no block, or a
\* block, that gives a status.
KeywordPages ==
    [blocks : {<< >>, <<Block("no_avail", << >>)>>, <<Block("offer", <<115, 68>>)>>,
               <<Block("offer", <<115, 79>>)>>},
     body : SeqsUpTo(Words, MaxWords), title : {"T"}]

InitKeywords == InitWith({FileMissing}, 0)

NextKeywords == \E page \in KeywordPages : CheckPage(page)

SpecKeywords == InitKeywords /\ [][NextKeywords]_vars

\* The monitor task alone over two urls a state file brings, never checked
\* yet, with a disk and a channel that can fail.  Every await of the task
\* returns in the end (the fetch and the session have timeouts, the sleeps
\* are finite), so its steps are taken under weak fairness.
DocOfTwoUrls ==
    [kind |-> "doc", interval_sec |-> DEFAULT_INTERVAL_SEC, alert_channel_id |-> NoChannel,
     items |-> <<[key |-> Url1, item |-> TrackedItem(Url1, NoNick)],
                 [key |-> Url2, item |-> TrackedItem(Url2, NoNick)]>>]

InitLive == InitWith({DocOfTwoUrls}, 0)

MonitorStep ==
    \/ SweepStart
    \/ ItemSleepDone
    \/ \E html \in FetchResults, visible \in BOOLEAN : CheckDone(html, visible)
    \/ \E ok \in BOOLEAN : SendDone(ok)

NextLive ==
    \/ on_ready
    \/ MonitorStep

SpecLive == InitLive /\ [][NextLive]_vars /\ WF_vars(MonitorStep)

\* The monitor task over one url with on_ready firing at any moment, close,
\* failures of the disk and the channel, and restarts; no commands.
InitReady == InitWith({DocOfEarlierRun}, 0)

NextReady ==
    \/ on_ready
    \/ MonitorStep
    \/ Close
    \/ Restart

SpecReady == InitReady /\ [][NextReady]_vars

\* -------------------------------------------------------------- properties
\* The last step was a check of an item that ran to the end of the loop body
\* (save_state returned).
Checked == event.op = "check" /\ event.save = "ok"

\* C1: when a check finds a status that differs from the stored one, the
\* notifier is called with the status stored before the check as the
\* previous status and the new status as the new one.  (Stated for the
\* checks whose message goes out.)
C1_AlertReportsStoredStatus ==
    (Checked /\ event.stored \in Statuses /\ event.status # event.stored /\ event.sent)
        => (event.old = event.stored /\ event.old_s = event.stored)

\* C2: an item removed before its turn in the running sweep is skipped: the
\* check does not write it back to cfg.items or to the state file, and calls
\* no notifier for it.
C2_RemovedItemSkipped ==
    (event.op = "check" /\ ~event.present_at_turn /\ event.stored = "NotTracked")
        => /\ event.url \notin Keys(cfg.items)
           /\ (file.kind = "doc" =>
                  \A i \in 1 .. Len(file.items) : file.items[i].key # event.url)
           /\ ~event.called

\* C3: for an item the store holds with no status yet, a completed check
\* calls the notifier exactly when the new status is InStock, and then with
\* no previous status (shown as Unknown).
C3_FirstObservationAlert ==
    (Checked /\ event.stored = None)
        => /\ event.called <=> event.status = "InStock"
           /\ event.called => (event.old = None /\ event.old_s = "Unknown")

\* C4: for an item the store holds with a status, a completed check calls
\* the notifier exactly when the new status differs from the stored one.
C4_BaselineAlertIffDifferent ==
    (Checked /\ event.stored \in Statuses)
        => (event.called <=> event.status # event.stored)

C4_Witness ==
    /\ Checked
    /\ event.stored = "InStock"
    /\ event.status = "Unknown"
    /\ event.called

\* C5: a failed fetch ends in a completed check: the stored status becomes
\* Unknown, last_checked is the time of the check, the state file holds the
\* result, and the notifier is called only for an item whose stored status
\* was InStock, OutOfStock or PreOrder.
C5_FailedFetch ==
    (Checked /\ event.failed /\ event.stored # "NotTracked")
        => /\ monitor # "crashed"
           /\ StoredStatus(cfg, heap, event.url) = "Unknown"
           /\ heap[cfg.items[Lookup(cfg.items, event.url)].obj].last_checked = clock
           /\ file = to_dict(cfg, heap)
           /\ event.called <=> event.stored \in {"InStock", "OutOfStock", "PreOrder"}

\* C6: save_state raising in a sweep does not end the monitor task.
C6_SaveFailureKeepsLoop ==
    (event.op = "check" /\ event.save # "ok") => monitor # "crashed"

\* C7: channel.send raising does not end the monitor task.
C7_SendFailureKeepsLoop ==
    (event.op = "send" /\ event.raised) => monitor # "crashed"

\* C8: whenever the configuration is written to the state file, and whenever
\* the round's sleep is computed, the interval is at least MIN_INTERVAL_SEC.
C8_IntervalFloor ==
    /\ (event.op \in {"channel", "interval", "track_add", "track_remove", "check"}
        /\ event.save = "ok") => file.interval_sec >= MIN_INTERVAL_SEC
    /\ event.op = "round_sleep" => event.base >= MIN_INTERVAL_SEC

\* C9: after !interval m the interval is max(1, m) * 60 seconds: 60 for
\* m <= 0, 300 for m = 5; and the state file holds it once save_state
\* returned.
C9_SetInterval ==
    event.op = "interval"
        => /\ cfg.interval_sec = (IF event.minutes >= 1 THEN event.minutes ELSE 1) * 60
           /\ event.minutes <= 0 => cfg.interval_sec = 60
           /\ event.minutes = 5 => cfg.interval_sec = 300
           /\ event.save = "ok" =>
                 (file.kind = "doc" /\ file.interval_sec = cfg.interval_sec)

C9_Witness ==
    /\ event.op = "interval"
    /\ event.minutes < 0
    /\ event.save = "ok"
    /\ file.interval_sec = 60

\* C10: !track add of a url that is tracked already, or of a url without an
\* allowed host, changes neither cfg, nor any TrackedItem, nor the state
\* file, and calls no save_state.
C10_RejectedAddChangesNothing ==
    [][(event'.op = "track_add"
        /\ (event'.url \in Keys(cfg.items) \/ ~AllowedHost(event'.url)))
       => /\ cfg' = cfg
          /\ heap' = heap
          /\ file' = file
          /\ event'.save = "none"
          /\ event'.reply \in {"already_tracked", "bad_host"}]_vars

C10_Witness ==
    /\ event.op = "track_add"
    /\ event.reply = "already_tracked"
    /\ event.url \in Keys(cfg.items)
    /\ heap[cfg.items[Lookup(cfg.items, event.url)].obj].nickname # event.nickname
    /\ heap[cfg.items[Lookup(cfg.items, event.url)].obj].last_status = "InStock"

\* Two strings that differ at most in the case of their letters.
SameIgnoringCase(a, b) ==
    /\ Len(a) = Len(b)
    /\ \A i \in 1 .. Len(a) :
          \/ a[i] = b[i]
          \/ (a[i] \in 65 .. 90 /\ b[i] = a[i] + 32)
          \/ (b[i] \in 65 .. 90 /\ a[i] = b[i] + 32)

\* The position in the dict of the item !track remove is to delete: the key
\* equal to the identifier, else the first item with that nickname, else 0.
Victim(items, h, id) ==
    IF \E i \in 1 .. Len(items) : items[i].url = id
    THEN CHOOSE i \in 1 .. Len(items) : items[i].url = id
    ELSE LET named == {i \in 1 .. Len(items) :
                         /\ h[items[i].obj].nickname # NoNick
                         /\ SameIgnoringCase(h[items[i].obj].nickname, id)}
         IN  IF named = {} THEN 0
             ELSE CHOOSE i \in named : \A j \in named : i <= j

\* C11: !track remove deletes exactly the item whose url is the identifier,
\* else the first item in insertion order whose nickname equals it without
\* regard to case; the other items stay as they are and in their order; with
\* no match it replies not-found and cfg and the state file are unchanged.
C11_RemoveExactlyOne ==
    [][event'.op = "track_remove"
       => LET v == Victim(cfg.items, heap, event'.identifier)
          IN  IF v = 0
              THEN /\ event'.reply = "not_found"
                   /\ cfg' = cfg /\ heap' = heap /\ file' = file
              ELSE /\ event'.reply # "not_found"
                   /\ Len(cfg'.items) = Len(cfg.items) - 1
                   /\ \A i \in 1 .. Len(cfg'.items) :
                         LET j == IF i < v THEN i ELSE i + 1
                         IN  /\ cfg'.items[i].url = cfg.items[j].url
                             /\ heap'[cfg'.items[i].obj] = heap[cfg.items[j].obj]
                   /\ event'.save = "ok" => file' = to_dict(cfg', heap')]_vars

\* Two items carry the nickname "A", the identifier is "a": the first added
\* is gone, the second stays.
C11_Witness ==
    /\ event.op = "track_remove"
    /\ event.identifier = <<97>>
    /\ event.reply = "removed"
    /\ Len(cfg.items) = 1
    /\ heap[cfg.items[1].obj].nickname = <<65>>

\* C12: after the process died inside save_state the state file holds the
\* whole previous document or the whole new one, and a load gives back the
\* items that were tracked.
C12_SaveAtomic ==
    event.op = "killed_in_save"
        => /\ file \in {event.old, event.new}
           /\ (event.old.kind = "doc" =>
                  Len(cfg.items) = Len(event.old.items))

\* C13: at a start with no state file, or with one that cannot be read or
\* is malformed, load_state returns the default configuration (interval 300,
\* no channel, no items), and the configuration of the run has no items and
\* the default interval.
C13_LoadFallsBack ==
    (event.op = "start" /\ file \in {FileMissing} \cup MalformedFiles)
        => /\ load_state(file).cfg = BotConfig(DEFAULT_INTERVAL_SEC, NoChannel, << >>)
           /\ cfg.items = << >>
           /\ cfg.interval_sec = DEFAULT_INTERVAL_SEC

\* A restart on a document whose item has a field TrackedItem does not know.
C13_Witness ==
    /\ event.op = "start"
    /\ file = DocItemWithExtraField
    /\ cfg.items = << >>
    /\ faults > 0

\* C14: a check calls the notifier at most once, and only for a status that
\* differs from the one the store held; when it does, the new status is in
\* cfg.items and in the state file already, so that neither a later sweep nor
\* a run that loads the file finds the same transition again; and the send
\* is followed by the next item or the end of the task, never by another send
\* for the same check.
C14_AtMostOneSend ==
    [][/\ (event'.op = "check" /\ event'.called)
           => /\ event'.status # event'.stored
              /\ StoredStatus(cfg', heap', event'.url) = event'.status
              /\ file' = to_dict(cfg', heap')
              /\ StoredStatus(Startup(file', NoChannel).cfg, Startup(file', NoChannel).heap,
                              event'.url) = event'.status
       /\ (monitor' = "sending" /\ monitor # "sending")
           => (monitor = "fetching" /\ event'.op = "check" /\ event'.sent)
       /\ (monitor = "sending" /\ monitor' # "sending")
           => monitor' \in {"item_sleep", "crashed", "none"}]_vars

\* A message is on its way for a change from InStock to OutOfStock.
C14_Witness ==
    /\ monitor = "sending"
    /\ event.op = "check"
    /\ event.stored = "InStock"
    /\ event.status = "OutOfStock"
    /\ StoredStatus(Startup(file, NoChannel).cfg, Startup(file, NoChannel).heap, event.url)
           = "OutOfStock"

\* The monitor task is inside the for statement of a sweep.
InSweep == monitor \in {"fetching", "sending", "item_sleep"}

\* The entries of the sweep's list whose fetch has not begun.
Waiting == IF monitor = "fetching" THEN Tail(snapshot) ELSE snapshot

RECURSIVE FirstConclusive(_)
FirstConclusive(blocks) ==
    IF blocks = << >> THEN None
    ELSE IF /\ Head(blocks).kind # "empty"
            /\ Head(blocks).token # << >>
            /\ Normalize(Head(blocks).token) # None
         THEN Normalize(Head(blocks).token)
         ELSE FirstConclusive(Tail(blocks))

\* C16: the status check_url extracts from a page is that of the first block
\* that gives InStock, OutOfStock or PreOrder, whatever blocks without a
\* status, with malformed JSON or with an unrecognised availability string
\* come before it.
C16_FirstConclusiveBlockWins ==
    (event.op = "check_url" /\ FirstConclusive(event.blocks) # None)
        => event.status = FirstConclusive(event.blocks)

\* C17: for a page no block of which gives a status, the status is InStock
\* if the lowercased text holds an in-stock phrase, else OutOfStock if it
\* holds an out-of-stock phrase, else PreOrder if it holds a pre-order
\* phrase, else Unknown; with an in-stock and an out-of-stock phrase it is
\* InStock.
C17_KeywordPriority ==
    (event.op = "check_url" /\ FirstConclusive(event.blocks) = None)
        => LET body == Lower(event.body)
               in  == \E w \in IN_STOCK_KEYWORDS : Contains(body, w)
               out == \E w \in OUT_STOCK_KEYWORDS : Contains(body, w)
               pre == \E w \in PREORDER_KEYWORDS : Contains(body, w)
           IN  /\ in => event.status = "InStock"
               /\ (~in /\ out) => event.status = "OutOfStock"
               /\ (~in /\ ~out /\ pre) => event.status = "PreOrder"
               /\ (~in /\ ~out /\ ~pre) => event.status = "Unknown"
               /\ (in /\ out) => event.status = "InStock"

\* "Uitverkocht ... op voorraad" on a page whose only block has an
\* unrecognised availability: both phrases, InStock.
C17_Witness ==
    /\ event.op = "check_url"
    /\ event.blocks = <<Block("offer", <<115, 68>>)>>
    /\ event.body = <<88, 122, 111>>
    /\ event.status = "InStock"

\* C18: on_ready creates a monitor task only when there is none or the last
\* one has ended, so no second loop runs beside a live one; and a fetch
\* begins only when the one task is between fetches.
C18_SingleLoop ==
    [][/\ (event'.op = "on_ready" /\ event'.created)
           => (monitor \in {"none", "done", "crashed"} /\ monitor' = "starting")
       /\ (event'.op = "on_ready" /\ ~event'.created) => UNCHANGED <<monitor, snapshot>>
       /\ event'.op = "fetch"
           => monitor \in {"starting", "round_sleep", "item_sleep"}]_vars

\* on_ready fires again while a fetch is in flight and creates nothing.
C18_Witness ==
    /\ event.op = "on_ready"
    /\ ~event.created
    /\ monitor = "fetching"

\* The nickname cfg.items holds for a url.
NicknameOf(c, h, url) == h[c.items[Lookup(c.items, url)].obj].nickname

\* C19: a step of the monitor task leaves the set of tracked urls and the
\* nickname of every tracked url as they were, also when commands added or
\* removed urls while its fetch was in flight.
C19_SweepFrame ==
    [][event'.op \in {"fetch", "round_sleep", "check", "send", "loop_exit"}
       => /\ Keys(cfg'.items) = Keys(cfg.items)
          /\ \A u \in Keys(cfg.items) :
                NicknameOf(cfg', heap', u) = NicknameOf(cfg, heap, u)]_vars

\* last_checked of a tracked url, NoTime for a url that is not tracked.
LastCheckedOf(u) ==
    IF u \in Keys(cfg.items)
    THEN heap[cfg.items[Lookup(cfg.items, u)].obj].last_checked
    ELSE NoTime

\* C20: once the monitor task exists, every tracked url is checked in the
\* end (its last_checked is set), whatever its fetch and the fetches before
\* it give.  Behaviours that use up the MaxClock readings of the clock
\* before the url's turn are left aside.
C20_EveryItemChecked ==
    \A u \in Urls :
        [](( /\ monitor # "none"
             /\ ~closed
             /\ u \in Keys(cfg.items)
             /\ clock = 0)
            => <>(LastCheckedOf(u) # NoTime \/ clock = MaxClock))

====
